---- MODULE Spec2Model ----
(***************************************************************************)
(* Model of function_app.py: the HTTP handler dynamicmediahandler, which   *)
(* serves an image from the "assets" container, optionally resized and     *)
(* re-encoded, and caches every derived variant in the "assetsoutput"      *)
(* container under a file name derived from the request parameters.        *)
(*                                                                         *)
(* Several workers of the hosting runtime execute the handler              *)
(* concurrently.  A handler run is cut at its blob-store calls: the code   *)
(* between two calls is local to the request and is executed atomically    *)
(* with the call that precedes it.                                         *)
(*                                                                         *)
(* Text is modelled by TLA+ strings.  A file name is the sequence of the   *)
(* pieces that filename.split('.') yields, so <<"photo", "png">> is        *)
(* photo.png and <<>> is a missing or empty filename.                      *)
(*                                                                         *)
(* The blob store is the environment of the handler.  A download raises    *)
(* when the blob is not in the container and may raise when it is there;   *)
(* an upload either stores the blob or raises and stores nothing.  Nothing *)
(* but the handler writes to assetsoutput, and the assets container does   *)
(* not change while the requests of one behaviour run.                     *)
(*                                                                         *)
(* Spec runs the whole handler on two workers.  SpecKey runs the handler   *)
(* up to the derived output file name on names with several dots and on    *)
(* the spellings of the JPEG format.  SpecGeo runs one request for a       *)
(* picture of several sizes with widths and heights below and above it.    *)
(* The resize rule of Image.thumbnail is the one of the Pillow library;    *)
(* its floating-point results are tabulated for the sizes that occur.      *)
(***************************************************************************)
EXTENDS Integers, Sequences, FiniteSets, TLC

(* ---------------------------------------------------------------------- *)
(* Bounds                                                                  *)
(* ---------------------------------------------------------------------- *)

\* Number of requests the workers accept in one behaviour.
MaxRequests == 2

\* The workers of the hosting runtime that run the handler in parallel.
Workers == {"w1", "w2"}

(* ---------------------------------------------------------------------- *)
(* Text helpers                                                            *)
(* ---------------------------------------------------------------------- *)

\* req.params.get(name) of a parameter that is not in the query string.
None == "<None>"

\* Python truthiness of a query parameter: None and "" are false.
Truthy(v) == v # None /\ v # ""

\* str.format rendering of a parameter inside the f-string.
Str(v) == IF v = None THEN "None" ELSE v

\* str.upper() on the extension and format texts that occur.
Upper(s) ==
    CASE s \in {"png", "Png", "PNG"} -> "PNG"
      [] s \in {"jpg", "Jpg", "JPG"} -> "JPG"
      [] s \in {"jpeg", "Jpeg", "JPEG"} -> "JPEG"
      [] s \in {"bmp", "BMP"} -> "BMP"
      [] s \in {"gif", "GIF"} -> "GIF"
      [] s \in {"tiff", "TIFF"} -> "TIFF"
      [] OTHER -> s

\* str.lower() on the extension and format texts that occur.
Lower(s) ==
    CASE s \in {"png", "Png", "PNG"} -> "png"
      [] s \in {"jpg", "Jpg", "JPG"} -> "jpg"
      [] s \in {"jpeg", "Jpeg", "JPEG"} -> "jpeg"
      [] s \in {"bmp", "BMP"} -> "bmp"
      [] s \in {"gif", "GIF"} -> "gif"
      [] s \in {"tiff", "TIFF"} -> "tiff"
      [] OTHER -> s

\* '.'.join(pieces): the file name as the text that names a blob.
RECURSIVE Join(_)
Join(pieces) ==
    IF Len(pieces) = 0 THEN ""
    ELSE IF Len(pieces) = 1 THEN pieces[1]
    ELSE pieces[1] \o "." \o Join(Tail(pieces))

\* int(text): the texts int() accepts, and their values.
CanParseInt(s) == s \in {"1", "50", "100", "500"}
IntOf(s) ==
    CASE s = "1" -> 1 [] s = "50" -> 50 [] s = "100" -> 100
      [] s = "500" -> 500 [] OTHER -> 0

\* MIME_TYPES.get(ext, "application/octet-stream")
MIME_TYPES(ext) ==
    CASE ext = "JPEG" -> "image/jpeg"
      [] ext = "JPG" -> "image/jpeg"
      [] ext = "PNG" -> "image/png"
      [] ext = "BMP" -> "image/bmp"
      [] ext = "GIF" -> "image/gif"
      [] OTHER -> "application/octet-stream"

\* The formats image.save is asked for.
SupportedFormats == {"JPEG", "PNG", "BMP", "GIF"}

\* The name of the default image.
DefaultFilename == <<"no-image", "jpg">>

(* ---------------------------------------------------------------------- *)
(* Blobs                                                                   *)
(* ---------------------------------------------------------------------- *)

\* The content of a blob.  kind "image" is an encoded picture: pix names
\* the picture it shows, w and h are its size, fmt the codec, alpha
\* whether it has a transparency channel.  Bytes are told apart by these
\* alone: a stored file and the encoder's output for the same picture,
\* size and codec count as the same bytes, so every difference the model
\* shows is a difference of picture, size or codec.  kind "garbage" is
\* anything Image.open rejects, kind "none" no content at all.
MkImage(pix, w, h, fmt, alpha) ==
    [kind |-> "image", pix |-> pix, w |-> w, h |-> h, fmt |-> fmt,
     alpha |-> alpha]
Garbage == [kind |-> "garbage", pix |-> "", w |-> 0, h |-> 0, fmt |-> "",
            alpha |-> FALSE]
NoBlob == [kind |-> "none", pix |-> "", w |-> 0, h |-> 0, fmt |-> "",
           alpha |-> FALSE]
\* The body of a plain-text response.
Text(msg) == [kind |-> "text", pix |-> msg, w |-> 0, h |-> 0, fmt |-> "",
              alpha |-> FALSE]

\* The blobs the assets container is populated with.
PhotoPng == MkImage("A", 400, 200, "PNG", TRUE)
PhotoJpg == MkImage("B", 80, 60, "JPEG", FALSE)
NoImageJpg == MkImage("N", 200, 200, "JPEG", FALSE)

\* A store is a function from the names of the blobs it holds to their
\* content.
EmptyStore == [n \in {} |-> NoBlob]
Put(store, name, data) ==
    [n \in (DOMAIN store) \cup {name} |-> IF n = name THEN data ELSE store[n]]

\* The contents the assets container may have: everything in place, the
\* photo missing, the photo unreadable, nothing at all.
AssetStores ==
    { [n \in {"photo.png", "photo.jpg", "no-image.jpg"} |->
          CASE n = "photo.png" -> c[1] [] n = "photo.jpg" -> c[2] [] OTHER -> c[3]] :
      c \in {<<PhotoPng, PhotoJpg, NoImageJpg>>,
              <<NoBlob, PhotoJpg, NoImageJpg>>,
              <<Garbage, PhotoJpg, NoImageJpg>>,
              <<NoBlob, NoBlob, NoBlob>>} }
\* Drop the names that hold nothing.
Present(s) == [n \in {m \in DOMAIN s : s[m] # NoBlob} |-> s[n]]

(* ---------------------------------------------------------------------- *)
(* Requests                                                                *)
(* ---------------------------------------------------------------------- *)

Filenames == {<<>>, <<"noext">>, <<"photo", "png">>, <<"photo", "jpg">>,
              <<"no-image", "jpg">>}
Widths == {None, "100"}
Heights == {None}
Formats == {None, "png", "tiff"}
\* The requests: every combination, the unsupported format only for
\* photo.png without a width.
Requests ==
    {r \in [filename : Filenames, width : Widths, height : Heights,
            format : Formats] :
        r.format = "tiff"
        => r.width = None /\ r.filename = <<"photo", "png">>}
NoRequest == [filename |-> <<>>, width |-> None, height |-> None,
              format |-> None]

(* ---------------------------------------------------------------------- *)
(* The image library                                                       *)
(* ---------------------------------------------------------------------- *)

Abs(n) == IF n < 0 THEN -n ELSE n

\* Image.thumbnail compares the keys of its two candidates in floating
\* point.  Where the keys are equal as exact numbers the rounding of the
\* quotients decides; these are the ties in which it takes the upper
\* candidate, for pictures and boxes with sides up to 8 and for the
\* pictures of GeoSizes with the boxes of GeoRequests.  In every other tie
\* in that range it takes the lower one.  <<y, W, H>> names a tie on the
\* width for box height y, <<x, W, H>> a tie on the height for box width x.
UpperWidthOnTie ==
    {<<3, 2, 4>>, <<3, 3, 6>>, <<3, 4, 8>>, <<3, 5, 6>>, <<3, 7, 6>>,
     <<6, 2, 8>>, <<7, 4, 8>>, <<50, 3, 60>>}
UpperHeightOnTie == {<<1, 11, 60>>}

\* round_aspect of Image.thumbnail: of the two integers around num/den the
\* one whose key is smaller, on a tie the one the table names, and at
\* least 1.  keyLow and keyHigh are the keys of the two candidates, already
\* brought to a common denominator.
RoundAspect(low, high, keyLow, keyHigh, upperOnTie) ==
    LET best == IF keyLow < keyHigh THEN low
                ELSE IF keyLow > keyHigh THEN high
                ELSE IF upperOnTie THEN high ELSE low
    IN  IF best < 1 THEN 1 ELSE best

\* Image.resize((x, y)) in the place of thumbnail: the picture is given
\* exactly the size asked for.
ThumbnailExact(x, y, W, H) ==
    IF x = 0 \/ y = 0 THEN [ok |-> FALSE, w |-> 0, h |-> 0]
    ELSE [ok |-> TRUE, w |-> x, h |-> y]

\* Image.thumbnail((x, y)) on a picture of size W x H: the resulting size,
\* or ok = FALSE when the call raises (division by a zero height, resize
\* to an empty size).
Thumbnail(x, y, W, H) ==
    IF x >= W /\ y >= H THEN [ok |-> TRUE, w |-> W, h |-> H]
    ELSE IF y = 0 THEN [ok |-> FALSE, w |-> 0, h |-> 0]
    ELSE IF x * H >= W * y
    THEN LET low == (y * W) \div H
             high == IF (y * W) % H = 0 THEN low ELSE low + 1
             nx == RoundAspect(low, high,
                               Abs(W * y - low * H), Abs(W * y - high * H),
                               <<y, W, H>> \in UpperWidthOnTie)
         IN  [ok |-> TRUE, w |-> nx, h |-> y]
    ELSE LET low == (x * H) \div W
             high == IF (x * H) % W = 0 THEN low ELSE low + 1
             ny == RoundAspect(low, high,
                               IF low = 0 THEN 0
                               ELSE Abs(W * low - x * H) * high,
                               IF low = 0 THEN 1
                               ELSE Abs(W * high - x * H) * low,
                               <<x, W, H>> \in UpperHeightOnTie)
         IN  IF x = 0 THEN [ok |-> FALSE, w |-> 0, h |-> 0]
             ELSE [ok |-> TRUE, w |-> x, h |-> ny]

\* int(a * (n / d)) of lines 119 and 123, computed in double precision:
\* the whole part of a * n / d, except where a * n / d is a whole number
\* and the rounded quotient n / d leaves the product just below it.
\* FloatFallsShort lists those <<a, n, d>> for a, n, d up to 16 and for the
\* pictures of GeoSizes with the widths and heights of GeoRequests.
FloatFallsShort == {<<11, 15, 11>>, <<13, 15, 13>>, <<49, 1, 49>>}
ScaledSide(a, n, d) ==
    IF <<a, n, d>> \in FloatFallsShort THEN (a * n) \div d - 1
    ELSE (a * n) \div d

\* The size the handler asks thumbnail for, from the width and height
\* parameters and the size of the decoded picture.  ok = FALSE when int()
\* raises.  A side that is not given is computed from the other one and
\* truncated by int().
RequestedSize(width, height, W, H) ==
    IF Truthy(width) /\ Truthy(height)
    THEN IF CanParseInt(width) /\ CanParseInt(height)
         THEN [ok |-> TRUE, resize |-> TRUE, w |-> IntOf(width),
               h |-> IntOf(height)]
         ELSE [ok |-> FALSE, resize |-> FALSE, w |-> 0, h |-> 0]
    ELSE IF Truthy(width)
    THEN IF CanParseInt(width)
         THEN [ok |-> TRUE, resize |-> TRUE, w |-> IntOf(width),
               h |-> ScaledSide(H, IntOf(width), W)]
         ELSE [ok |-> FALSE, resize |-> FALSE, w |-> 0, h |-> 0]
    ELSE IF Truthy(height)
    THEN IF CanParseInt(height)
         THEN [ok |-> TRUE, resize |-> TRUE,
               w |-> ScaledSide(W, IntOf(height), H), h |-> IntOf(height)]
         ELSE [ok |-> FALSE, resize |-> FALSE, w |-> 0, h |-> 0]
    ELSE [ok |-> TRUE, resize |-> FALSE, w |-> W, h |-> H]

\* The format taken as it comes, without the test of lines 133-137 and
\* 142-147 that it is one the handler supports.
ResolveFormatUnchecked(format, original_extension) ==
    IF Truthy(format)
    THEN IF Upper(format) = "JPG" THEN "JPEG" ELSE Upper(format)
    ELSE IF original_extension = "JPG" THEN "JPEG" ELSE original_extension

\* The format image.save is called with: the format parameter uppercased,
\* JPG read as JPEG, or else the extension of the requested name.  "" when
\* the handler answers "Unsupported format.".
ResolveFormat(format, original_extension) ==
    IF Truthy(format)
    THEN LET f == IF Upper(format) = "JPG" THEN "JPEG" ELSE Upper(format)
         IN  IF f \in SupportedFormats THEN f ELSE ""
    ELSE IF original_extension = "JPG" THEN "JPEG"
    ELSE IF original_extension \in SupportedFormats THEN original_extension
    ELSE ""

\* image.save(output, format): the encoder refuses a picture with a
\* transparency channel as JPEG.
CanSave(image, format) == ~(format = "JPEG" /\ image.alpha)

\* Lines 106-151 of the handler: decode, resize, resolve the format,
\* encode.  status is 200 with the encoded bytes in data, 400 for an
\* unsupported format, 500 when any call raises.
Transform(blob_data, width, height, format, original_extension) ==
    IF blob_data.kind # "image"
    THEN [status |-> 500, data |-> NoBlob, format |-> ""]
    ELSE LET size == RequestedSize(width, height, blob_data.w, blob_data.h)
             thumb == IF size.resize
                      THEN Thumbnail(size.w, size.h, blob_data.w, blob_data.h)
                      ELSE [ok |-> TRUE, w |-> blob_data.w, h |-> blob_data.h]
             fmt == ResolveFormat(format, original_extension)
         IN  IF ~size.ok \/ ~thumb.ok
             THEN [status |-> 500, data |-> NoBlob, format |-> ""]
             ELSE IF fmt = ""
             THEN [status |-> 400, data |-> NoBlob, format |-> ""]
             ELSE IF ~CanSave(blob_data, fmt)
             THEN [status |-> 500, data |-> NoBlob, format |-> fmt]
             ELSE [status |-> 200,
                   data |-> MkImage(blob_data.pix, thumb.w, thumb.h, fmt,
                                    blob_data.alpha),
                   format |-> fmt]

(* ---------------------------------------------------------------------- *)
(* The handler's derivations                                               *)
(* ---------------------------------------------------------------------- *)

\* The name kept as it was sent, without the substitution of lines 50-52.
EffectiveFilenameKeep(filename) == filename

\* Lines 49-52: a name without '.' is replaced by the default image.
EffectiveFilename(filename) ==
    IF Len(filename) = 1 THEN DefaultFilename ELSE filename

\* Line 55: filename.split('.')[-1].upper()
OriginalExtension(filename) == Upper(filename[Len(filename)])

\* Line 59: the name of the derived blob.
OutputFilename(filename, width, height, format) ==
    filename[1] \o "_" \o Str(width) \o "_" \o Str(height) \o "."
    \o (IF Truthy(format) THEN Lower(format)
        ELSE Lower(OriginalExtension(filename)))

\* func.HttpResponse(body, status_code, mimetype, headers)
HttpResponse(body, status, mime, disposition) ==
    [status |-> status, body |-> body, mimetype |-> mime,
     disposition |-> disposition]
NoResponse == HttpResponse(NoBlob, 0, "", "")
ContentDisposition(name) == "inline; filename=" \o name

\* Lines 94-97: the response when neither image can be downloaded.
DownloadError ==
    HttpResponse(Text("Error downloading the image."), 500, "text/plain", "")

\* One call of a request, as recorded in its log: the call, the blob name
\* it was made with, and whether it returned (TRUE) or raised (FALSE).
Op(op, arg, ok) == [op |-> op, arg |-> arg, ok |-> ok]

(* ---------------------------------------------------------------------- *)
(* State                                                                   *)
(* ---------------------------------------------------------------------- *)

VARIABLES
    assets,             \* the "assets" container: name -> content
    assetsoutput,       \* the "assetsoutput" container: name -> content
    started,            \* number of requests accepted so far
    pc,                 \* per worker: where its handler run stands
    req,                \* per worker: req.params of the request it runs
    filename,           \* per worker: the handler's local filename
    original_extension, \* per worker: the handler's local original_extension
    mimetype,           \* per worker: the handler's local mimetype
    output_filename,    \* per worker: the handler's local output_filename
    blob_data,          \* per worker: the bytes read from assets
    output,             \* per worker: the encoded bytes in the buffer output
    resp,               \* per worker: the response returned, if any
    ops,                \* per worker: the blob-store calls of the run, in order
    atStart             \* per worker: assetsoutput when the request arrived

vars == <<assets, assetsoutput, started, pc, req, filename,
          original_extension, mimetype, output_filename, blob_data, output,
          resp, ops, atStart>>

locals == <<filename, original_extension, mimetype, output_filename,
            blob_data, output>>

Init ==
    /\ assets \in {Present(s) : s \in AssetStores}
    /\ assetsoutput = EmptyStore
    /\ started = 0
    /\ pc = [p \in Workers |-> "idle"]
    /\ req = [p \in Workers |-> NoRequest]
    /\ filename = [p \in Workers |-> <<>>]
    /\ original_extension = [p \in Workers |-> ""]
    /\ mimetype = [p \in Workers |-> ""]
    /\ output_filename = [p \in Workers |-> ""]
    /\ blob_data = [p \in Workers |-> NoBlob]
    /\ output = [p \in Workers |-> NoBlob]
    /\ resp = [p \in Workers |-> NoResponse]
    /\ ops = [p \in Workers |-> <<>>]
    /\ atStart = [p \in Workers |-> EmptyStore]

(* ---------------------------------------------------------------------- *)
(* The handler, one action per stretch between blob-store calls            *)
(* ---------------------------------------------------------------------- *)

\* The worker returns the response r and its run ends.
Return(p, r) ==
    /\ resp' = [resp EXCEPT ![p] = r]
    /\ pc' = [pc EXCEPT ![p] = "done"]

\* Receive with the filename test after the substitution of the default
\* name: a missing filename is served as the default image.
ReceiveNoValidation(p, r) ==
    /\ pc[p] \in {"idle", "done"}
    /\ started < MaxRequests
    /\ started' = started + 1
    /\ req' = [req EXCEPT ![p] = r]
    /\ ops' = [ops EXCEPT ![p] = <<>>]
    /\ atStart' = [atStart EXCEPT ![p] = assetsoutput]
    /\ blob_data' = [blob_data EXCEPT ![p] = NoBlob]
    /\ output' = [output EXCEPT ![p] = NoBlob]
    /\ LET fn == IF Len(r.filename) <= 1 THEN DefaultFilename ELSE r.filename
       IN  /\ filename' = [filename EXCEPT ![p] = fn]
           /\ original_extension' =
                  [original_extension EXCEPT ![p] = OriginalExtension(fn)]
           /\ mimetype' =
                  [mimetype EXCEPT ![p] = MIME_TYPES(OriginalExtension(fn))]
           /\ output_filename' =
                  [output_filename EXCEPT ![p] =
                       OutputFilename(fn, r.width, r.height, r.format)]
           /\ resp' = [resp EXCEPT ![p] = NoResponse]
           /\ pc' = [pc EXCEPT ![p] = "check_cache"]
    /\ UNCHANGED <<assets, assetsoutput>>

\* Lines 38-59: a worker takes a request, validates the filename and
\* derives extension, MIME type and output file name.
Receive(p, r) ==
    /\ pc[p] \in {"idle", "done"}
    /\ started < MaxRequests
    /\ started' = started + 1
    /\ req' = [req EXCEPT ![p] = r]
    /\ ops' = [ops EXCEPT ![p] = <<>>]
    /\ atStart' = [atStart EXCEPT ![p] = assetsoutput]
    /\ blob_data' = [blob_data EXCEPT ![p] = NoBlob]
    /\ output' = [output EXCEPT ![p] = NoBlob]
    /\ IF r.filename = <<>>
       THEN /\ Return(p, HttpResponse(Text("Filename is required."), 400,
                                      "text/plain", ""))
            /\ filename' = [filename EXCEPT ![p] = <<>>]
            /\ original_extension' = [original_extension EXCEPT ![p] = ""]
            /\ mimetype' = [mimetype EXCEPT ![p] = ""]
            /\ output_filename' = [output_filename EXCEPT ![p] = ""]
       ELSE LET fn == EffectiveFilename(r.filename)
            IN  /\ filename' = [filename EXCEPT ![p] = fn]
                /\ original_extension' =
                       [original_extension EXCEPT ![p] = OriginalExtension(fn)]
                /\ mimetype' =
                       [mimetype EXCEPT ![p] = MIME_TYPES(OriginalExtension(fn))]
                /\ output_filename' =
                       [output_filename EXCEPT ![p] =
                            OutputFilename(fn, r.width, r.height, r.format)]
                /\ resp' = [resp EXCEPT ![p] = NoResponse]
                /\ pc' = [pc EXCEPT ![p] = "check_cache"]
    /\ UNCHANGED <<assets, assetsoutput>>

\* container.get_blob_client(name).download_blob().readall() inside its
\* try.  The call raises when the blob is not there, and it may raise for
\* any other reason (raises) when the blob is there; the handler's
\* except Exception takes both alike.  ok = FALSE when the call raises.
DownloadBlob(container, name, raises) ==
    IF name \in DOMAIN container /\ ~raises
    THEN [ok |-> TRUE, data |-> container[name]]
    ELSE [ok |-> FALSE, data |-> NoBlob]

\* The MIME type of the response that serves a cached blob (line 68).
CachedMimetype(format, ext) ==
    MIME_TYPES(IF Truthy(format) THEN Upper(format) ELSE ext)

\* CachedResponse with the headers argument forgotten.
CachedResponseNoHeaders(data, format, ext, name) ==
    HttpResponse(data, 200, CachedMimetype(format, ext), "")

\* Lines 66-72: the response that serves a cached blob.
CachedResponse(data, format, ext, name) ==
    HttpResponse(data, 200, CachedMimetype(format, ext),
                 ContentDisposition(name))

\* Lines 61-74: download the derived blob; if it is there, return it.
CheckCache(p, raises) ==
    /\ pc[p] = "check_cache"
    /\ LET got == DownloadBlob(assetsoutput, output_filename[p], raises)
       IN  /\ ops' = [ops EXCEPT ![p] =
                        Append(@, Op("get_output", output_filename[p],
                                     got.ok))]
           /\ IF got.ok
              THEN Return(p, CachedResponse(got.data, req[p].format,
                                            original_extension[p],
                                            output_filename[p]))
              ELSE /\ pc' = [pc EXCEPT ![p] = "download"]
                   /\ UNCHANGED resp
    /\ UNCHANGED <<assets, assetsoutput, started, req, locals, atStart>>

\* Download without the fallback: a failed download ends the request.
DownloadNoFallback(p, raises) ==
    /\ pc[p] = "download"
    /\ LET got == DownloadBlob(assets, Join(filename[p]), raises)
       IN  /\ ops' = [ops EXCEPT ![p] =
                        Append(@, Op("get_assets", Join(filename[p]),
                                     got.ok))]
           /\ IF got.ok
              THEN /\ blob_data' = [blob_data EXCEPT ![p] = got.data]
                   /\ pc' = [pc EXCEPT ![p] = "process"]
                   /\ UNCHANGED resp
              ELSE /\ Return(p, DownloadError)
                   /\ UNCHANGED blob_data
    /\ UNCHANGED <<assets, assetsoutput, started, req, filename,
                   original_extension, mimetype, output_filename, output,
                   atStart>>

\* Lines 76-83: download the requested blob from assets.
Download(p, raises) ==
    /\ pc[p] = "download"
    /\ LET got == DownloadBlob(assets, Join(filename[p]), raises)
       IN  /\ ops' = [ops EXCEPT ![p] =
                        Append(@, Op("get_assets", Join(filename[p]),
                                     got.ok))]
           /\ IF got.ok
              THEN /\ blob_data' = [blob_data EXCEPT ![p] = got.data]
                   /\ pc' = [pc EXCEPT ![p] = "process"]
              ELSE /\ pc' = [pc EXCEPT ![p] = "download_default"]
                   /\ UNCHANGED blob_data
    /\ UNCHANGED <<assets, assetsoutput, started, req, filename,
                   original_extension, mimetype, output_filename, output,
                   resp, atStart>>

\* DownloadDefault that derives the output file name again from the
\* name of the default image once it has fallen back.
DownloadDefaultRederive(p, raises) ==
    /\ pc[p] = "download_default"
    /\ LET got == DownloadBlob(assets, Join(DefaultFilename), raises)
       IN  /\ ops' = [ops EXCEPT ![p] =
                        Append(@, Op("get_assets", Join(DefaultFilename),
                                     got.ok))]
           /\ IF got.ok
              THEN /\ blob_data' = [blob_data EXCEPT ![p] = got.data]
                   /\ filename' = [filename EXCEPT ![p] = DefaultFilename]
                   /\ output_filename' =
                          [output_filename EXCEPT ![p] =
                               OutputFilename(DefaultFilename, req[p].width,
                                              req[p].height, req[p].format)]
                   /\ pc' = [pc EXCEPT ![p] = "process"]
                   /\ UNCHANGED resp
              ELSE /\ Return(p, DownloadError)
                   /\ UNCHANGED <<blob_data, filename, output_filename>>
    /\ UNCHANGED <<assets, assetsoutput, started, req, original_extension,
                   mimetype, output, atStart>>

\* Lines 84-97: download the default image instead; without it, 500.
DownloadDefault(p, raises) ==
    /\ pc[p] = "download_default"
    /\ LET got == DownloadBlob(assets, Join(DefaultFilename), raises)
       IN  /\ ops' = [ops EXCEPT ![p] =
                        Append(@, Op("get_assets", Join(DefaultFilename),
                                     got.ok))]
           /\ IF got.ok
              THEN /\ blob_data' = [blob_data EXCEPT ![p] = got.data]
                   /\ filename' = [filename EXCEPT ![p] = DefaultFilename]
                   /\ pc' = [pc EXCEPT ![p] = "process"]
                   /\ UNCHANGED resp
              ELSE /\ Return(p, DownloadError)
                   /\ UNCHANGED <<blob_data, filename>>
    /\ UNCHANGED <<assets, assetsoutput, started, req, original_extension,
                   mimetype, output_filename, output, atStart>>

\* Lines 99-104: nothing to transform, return the bytes as they are.
PassThrough(p) ==
    /\ pc[p] = "process"
    /\ ~Truthy(req[p].width) /\ ~Truthy(req[p].height) /\ ~Truthy(req[p].format)
    /\ Return(p, HttpResponse(blob_data[p], 200, mimetype[p], ""))
    /\ UNCHANGED <<assets, assetsoutput, started, req, locals, ops, atStart>>

\* Lines 106-151 and 166-171: decode, resize and encode; an unsupported
\* format ends the request with 400, an exception with 500.
Process(p) ==
    /\ pc[p] = "process"
    /\ Truthy(req[p].width) \/ Truthy(req[p].height) \/ Truthy(req[p].format)
    /\ LET t == Transform(blob_data[p], req[p].width, req[p].height,
                          req[p].format, original_extension[p])
       IN  /\ ops' = [ops EXCEPT ![p] =
                        Append(@, Op("transform", "", t.status = 200))]
           /\ IF t.status = 200
              THEN /\ output' = [output EXCEPT ![p] = t.data]
                   /\ pc' = [pc EXCEPT ![p] = "upload"]
                   /\ UNCHANGED resp
              ELSE /\ Return(p, HttpResponse(
                          Text(IF t.status = 400 THEN "Unsupported format."
                               ELSE "Error processing the image."),
                          t.status, "text/plain", ""))
                   /\ UNCHANGED output
    /\ UNCHANGED <<assets, assetsoutput, started, req, filename,
                   original_extension, mimetype, output_filename, blob_data,
                   atStart>>

\* The format image.save was called with, recomputed for the response.
SavedFormat(p) == ResolveFormat(req[p].format, original_extension[p])

\* Upload where a refused upload has stored the bytes all the same.
UploadStoresThenFails(p, succeeds) ==
    /\ pc[p] = "upload"
    /\ ops' = [ops EXCEPT ![p] =
                  Append(@, Op("put_output", output_filename[p], succeeds))]
    /\ assetsoutput' = Put(assetsoutput, output_filename[p], output[p])
    /\ IF succeeds
       THEN Return(p, HttpResponse(output[p], 200, MIME_TYPES(SavedFormat(p)),
                                   ContentDisposition(output_filename[p])))
       ELSE Return(p, HttpResponse(Text("Error processing the image."),
                                   500, "text/plain", ""))
    /\ UNCHANGED <<assets, started, req, locals, atStart>>

\* Upload into the container of the originals, under the requested name.
UploadToAssets(p, succeeds) ==
    /\ pc[p] = "upload"
    /\ ops' = [ops EXCEPT ![p] =
                  Append(@, Op("put_output", output_filename[p], succeeds))]
    /\ IF succeeds
       THEN /\ assets' = Put(assets, Join(filename[p]), output[p])
            /\ Return(p, HttpResponse(output[p], 200,
                                      MIME_TYPES(SavedFormat(p)),
                                      ContentDisposition(output_filename[p])))
       ELSE /\ Return(p, HttpResponse(Text("Error processing the image."),
                                      500, "text/plain", ""))
            /\ UNCHANGED assets
    /\ UNCHANGED <<assetsoutput, started, req, locals, atStart>>

\* Lines 153-171: upload the encoded bytes, overwriting, and return them;
\* an upload that raises ends the request in the except clause.
Upload(p, succeeds) ==
    /\ pc[p] = "upload"
    /\ ops' = [ops EXCEPT ![p] =
                  Append(@, Op("put_output", output_filename[p], succeeds))]
    /\ IF succeeds
       THEN /\ assetsoutput' = Put(assetsoutput, output_filename[p], output[p])
            /\ Return(p, HttpResponse(output[p], 200,
                                      MIME_TYPES(SavedFormat(p)),
                                      ContentDisposition(output_filename[p])))
       ELSE /\ Return(p, HttpResponse(Text("Error processing the image."),
                                      500, "text/plain", ""))
            /\ UNCHANGED assetsoutput
    /\ UNCHANGED <<assets, started, req, locals, atStart>>

Next ==
    \E p \in Workers :
        \/ \E r \in Requests : Receive(p, r)
        \/ \E raises \in BOOLEAN : CheckCache(p, raises)
        \/ \E raises \in BOOLEAN : Download(p, raises)
        \/ \E raises \in BOOLEAN : DownloadDefault(p, raises)
        \/ PassThrough(p)
        \/ Process(p)
        \/ \E succeeds \in BOOLEAN : Upload(p, succeeds)

Spec == Init /\ [][Next]_vars

(* ---------------------------------------------------------------------- *)
(* Key derivation on its own                                               *)
(* ---------------------------------------------------------------------- *)

\* Requests that exercise line 59: names with one and with several dots,
\* both sizes given or not, and the spellings of the JPEG format.
KeyFilenames == {<<"photo", "png">>, <<"photo", "v1", "png">>,
                 <<"photo", "v2", "png">>, <<"photo", "JPG">>,
                 <<"archive", "tar", "jpeg">>}
KeyFormats == {None, "png", "jpg", "JPG", "jpeg"}
KeyRequests == [filename : KeyFilenames, width : {None, "100"},
                height : {None, "50"}, format : KeyFormats]

\* Lines 38-59 for each of these requests: the handler up to the derived
\* output file name.
NextKey == \E p \in Workers : \E r \in KeyRequests : Receive(p, r)

SpecKey == Init /\ [][NextKey]_vars

(* ---------------------------------------------------------------------- *)
(* Resizing on its own                                                     *)
(* ---------------------------------------------------------------------- *)

\* The sizes <<width, height>> of the picture stored as photo.png.
GeoSizes == {<<400, 200>>, <<80, 60>>, <<3, 2>>, <<200, 200>>, <<60, 80>>,
             <<49, 49>>, <<3, 60>>, <<3, 100>>, <<11, 60>>}

\* Requests for photo.png with every combination of width and height:
\* smaller than, equal to and larger than the picture.
GeoRequests == [filename : {<<"photo", "png">>},
                width : {None, "1", "50", "100", "500"},
                height : {None, "1", "50", "100"},
                format : {None, "png"}]

\* assets holds photo.png in one of the sizes; nothing is cached.
InitGeo ==
    /\ assets \in {[n \in {"photo.png"} |->
                       MkImage("A", s[1], s[2], "PNG", TRUE)] : s \in GeoSizes}
    /\ assetsoutput = EmptyStore
    /\ started = 0
    /\ pc = [p \in Workers |-> "idle"]
    /\ req = [p \in Workers |-> NoRequest]
    /\ filename = [p \in Workers |-> <<>>]
    /\ original_extension = [p \in Workers |-> ""]
    /\ mimetype = [p \in Workers |-> ""]
    /\ output_filename = [p \in Workers |-> ""]
    /\ blob_data = [p \in Workers |-> NoBlob]
    /\ output = [p \in Workers |-> NoBlob]
    /\ resp = [p \in Workers |-> NoResponse]
    /\ ops = [p \in Workers |-> <<>>]
    /\ atStart = [p \in Workers |-> EmptyStore]

\* Lines 38-59 for a worker that has not served a request yet.
ReceiveFirst(p, r) == pc[p] = "idle" /\ Receive(p, r)

\* One request, carried through the handler by one worker.
NextGeo ==
    \/ \E r \in GeoRequests : ReceiveFirst("w1", r)
    \/ \E raises \in BOOLEAN : CheckCache("w1", raises)
    \/ \E raises \in BOOLEAN : Download("w1", raises)
    \/ \E raises \in BOOLEAN : DownloadDefault("w1", raises)
    \/ PassThrough("w1")
    \/ Process("w1")
    \/ \E succeeds \in BOOLEAN : Upload("w1", succeeds)

SpecGeo == InitGeo /\ [][NextGeo]_vars

(* ---------------------------------------------------------------------- *)
(* Vocabulary of the properties                                            *)
(* ---------------------------------------------------------------------- *)

\* The request asks for no transformation at all.
NoTransformAsked(r) ==
    ~Truthy(r.width) /\ ~Truthy(r.height) /\ ~Truthy(r.format)

\* The blob name the request asks for, after the substitution for a name
\* without '.'.
RequestedName(r) == Join(EffectiveFilename(r.filename))

\* The positions of the calls of kind op in a request's log.
Calls(p, op) == {i \in 1..Len(ops[p]) : ops[p][i].op = op}

\* The last call of the request, "" before the first one.
LastOp(p) == IF Len(ops[p]) = 0 THEN "" ELSE ops[p][Len(ops[p])].op

\* The request of p was answered from the cache.
ServedFromCache(p) ==
    /\ pc[p] = "done" /\ Len(ops[p]) = 1 /\ LastOp(p) = "get_output"
    /\ ops[p][1].ok

\* The request of p fell back to the default image.
FellBack(p) ==
    /\ Len(ops[p]) >= 3
    /\ ops[p][3] = Op("get_assets", Join(DefaultFilename), TRUE)
    /\ blob_data[p] # NoBlob

\* No download from assets of the request of p raised on a blob that is
\* there.
NoSourceFault(p) ==
    \A i \in Calls(p, "get_assets") :
        ops[p][i].ok \/ ops[p][i].arg \notin DOMAIN assets

(* ---------------------------------------------------------------------- *)
(* C1                                                                      *)
(* ---------------------------------------------------------------------- *)

\* C1: a request without width, height and format, for a name the assets
\* container holds and can be read from, is answered with exactly the
\* stored bytes, and puts nothing into assetsoutput.
C1_OriginalVerbatim ==
    \A p \in Workers :
        (/\ pc[p] = "done"
         /\ req[p].filename # <<>>
         /\ NoTransformAsked(req[p])
         /\ RequestedName(req[p]) \in DOMAIN assets
         /\ NoSourceFault(p))
        => /\ resp[p].body = assets[RequestedName(req[p])]
           /\ Calls(p, "put_output") = {}

(* ---------------------------------------------------------------------- *)
(* C2                                                                      *)
(* ---------------------------------------------------------------------- *)

\* What a finished request has put into assetsoutput: the name and the
\* bytes, or nothing.
Written(p) ==
    IF LastOp(p) = "put_output" /\ resp[p].status = 200
    THEN <<output_filename[p], output[p]>>
    ELSE <<"", NoBlob>>

\* C2: a request for a name that is not in assets, answered while the
\* default image is there and can be read, gets the response and leaves
\* the derived blob that a request for no-image.jpg with the same width,
\* height and format gets from the same content of assetsoutput.
C2_FallbackEqualsDefault ==
    \A p, q \in Workers :
        (/\ pc[p] = "done" /\ pc[q] = "done"
         /\ req[p].filename # <<>>
         /\ RequestedName(req[p]) \notin DOMAIN assets
         /\ Join(DefaultFilename) \in DOMAIN assets
         /\ req[q].filename = DefaultFilename
         /\ req[q].width = req[p].width
         /\ req[q].height = req[p].height
         /\ req[q].format = req[p].format
         /\ atStart[p] = atStart[q]
         /\ NoSourceFault(p) /\ NoSourceFault(q))
        => /\ resp[p] = resp[q]
           /\ Written(p) = Written(q)

(* ---------------------------------------------------------------------- *)
(* C3                                                                      *)
(* ---------------------------------------------------------------------- *)

\* C3: when the cache check finds the derived blob (the download from
\* assetsoutput returns), the request ends at once with 200, the cached
\* bytes and a Content-Disposition naming the derived blob; its only
\* store call is that one download from assetsoutput, and assetsoutput is
\* left as it is.
C3_CacheHitOnly ==
    [][\A p \in Workers :
          (/\ pc[p] = "check_cache"
           /\ pc'[p] # "check_cache"
           /\ ops'[p][Len(ops'[p])].ok)
          => /\ pc'[p] = "done"
             /\ output_filename[p] \in DOMAIN assetsoutput
             /\ resp'[p].status = 200
             /\ resp'[p].body = assetsoutput[output_filename[p]]
             /\ resp'[p].disposition =
                    "inline; filename=" \o output_filename[p]
             /\ ops'[p] = <<Op("get_output", output_filename[p], TRUE)>>
             /\ assetsoutput' = assetsoutput]_vars

\* A request that found its derived blob although the blob was not there
\* yet when the request arrived.
C3_Witness ==
    \E p \in Workers :
        /\ ServedFromCache(p)
        /\ resp[p].status = 200
        /\ output_filename[p] \notin DOMAIN atStart[p]
        /\ resp[p].body = assetsoutput[output_filename[p]]

(* ---------------------------------------------------------------------- *)
(* C4                                                                      *)
(* ---------------------------------------------------------------------- *)

\* The format parameter is given and names none of JPEG, PNG, BMP, GIF.
UnsupportedFormatAsked(r) ==
    /\ r.format # None /\ r.format # ""
    /\ (IF Upper(r.format) = "JPG" THEN "JPEG" ELSE Upper(r.format))
           \notin {"JPEG", "PNG", "BMP", "GIF"}

\* C4: a request with an unsupported format ends with status 400,
\* whatever the assets container holds.
C4_UnsupportedIs400 ==
    \A p \in Workers :
        (pc[p] = "done" /\ UnsupportedFormatAsked(req[p]))
        => resp[p].status = 400

(* ---------------------------------------------------------------------- *)
(* C5                                                                      *)
(* ---------------------------------------------------------------------- *)

\* C5: a request whose transform succeeded ends with 200, the encoded
\* bytes, their MIME type and the Content-Disposition naming the derived
\* blob, whether or not the upload succeeded.
C5_UploadFailureHarmless ==
    \A p \in Workers :
        (pc[p] = "done" /\ LastOp(p) = "put_output")
        => /\ resp[p].status = 200
           /\ resp[p].body = output[p]
           /\ resp[p].mimetype = MIME_TYPES(output[p].fmt)
           /\ resp[p].disposition =
                  "inline; filename=" \o output_filename[p]

(* ---------------------------------------------------------------------- *)
(* C6                                                                      *)
(* ---------------------------------------------------------------------- *)

\* The request of p has got as far as the upload.
ReachedUpload(p) == pc[p] = "upload" \/ LastOp(p) = "put_output"

\* C6: two requests that derive the same output file name and both get
\* as far as the upload hold the same encoded bytes, and when both have
\* been answered with 200 the stored blob is the body each of them got.
C6_SameKeySameBytes ==
    \A p, q \in Workers :
        (/\ p # q
         /\ ReachedUpload(p) /\ ReachedUpload(q)
         /\ output_filename[p] = output_filename[q])
        => /\ output[p] = output[q]
           /\ (/\ pc[p] = "done" /\ resp[p].status = 200
               /\ pc[q] = "done" /\ resp[q].status = 200)
              => /\ assetsoutput[output_filename[p]] = resp[p].body
                 /\ assetsoutput[output_filename[p]] = resp[q].body

(* ---------------------------------------------------------------------- *)
(* C7                                                                      *)
(* ---------------------------------------------------------------------- *)

\* The request of p has a filename and so has derived an output name.
HasKey(p) == pc[p] # "idle" /\ req[p].filename # <<>>

\* C7: at every point of a request, before and after the cache check, the
\* fallback and the transform, the output file name it holds is the one
\* line 59 derives from its four parameters, so two requests with the same
\* parameters hold the same output file name wherever each of them stands.
C7_KeyFromParametersOnly ==
    /\ \A p \in Workers :
          HasKey(p) =>
              output_filename[p] =
                  EffectiveFilename(req[p].filename)[1] \o "_"
                  \o Str(req[p].width) \o "_" \o Str(req[p].height) \o "."
                  \o (IF Truthy(req[p].format) THEN Lower(req[p].format)
                      ELSE Lower(EffectiveFilename(req[p].filename)[
                               Len(EffectiveFilename(req[p].filename))]))
    /\ \A p, q \in Workers :
          (HasKey(p) /\ HasKey(q) /\ req[p] = req[q])
          => output_filename[p] = output_filename[q]

\* Two requests with the same parameters, one answered after a fallback to
\* the default image and a transform, the other not yet at its cache check.
C7_Witness ==
    \E p, q \in Workers :
        /\ p # q
        /\ req[p] = req[q]
        /\ pc[p] = "done" /\ FellBack(p) /\ LastOp(p) = "put_output"
        /\ filename[p] # EffectiveFilename(req[p].filename)
        /\ pc[q] = "check_cache"

(* ---------------------------------------------------------------------- *)
(* C8                                                                      *)
(* ---------------------------------------------------------------------- *)

\* C8: after a cache miss the requested name is downloaded from assets.
\* If that download returns, the default image is never downloaded and
\* the request goes on with the requested bytes.  If it raises, the
\* default image is downloaded: when that returns the request goes on with
\* the default image's bytes, and exactly when that raises too the request
\* ends with the 500 of the download error.
C8_SourceResolution ==
    \A p \in Workers :
        /\ resp[p] = DownloadError
           => /\ Len(ops[p]) = 3
              /\ ~ops[p][2].ok
              /\ ~ops[p][3].ok
        /\ Len(ops[p]) >= 2
           => /\ ops[p][2].op = "get_assets"
              /\ ops[p][2].arg = RequestedName(req[p])
              /\ IF ops[p][2].ok
                 THEN /\ Calls(p, "get_assets") = {2}
                      /\ ops[p][2].arg \in DOMAIN assets
                      /\ blob_data[p] = assets[ops[p][2].arg]
                      /\ pc[p] \in {"process", "upload", "done"}
                      /\ resp[p] # DownloadError
                 ELSE IF Len(ops[p]) = 2
                 THEN pc[p] = "download_default"
                 ELSE /\ ops[p][3].op = "get_assets"
                      /\ ops[p][3].arg = "no-image.jpg"
                      /\ IF ops[p][3].ok
                         THEN /\ "no-image.jpg" \in DOMAIN assets
                              /\ blob_data[p] = assets["no-image.jpg"]
                              /\ pc[p] \in {"process", "upload", "done"}
                              /\ resp[p] # DownloadError
                         ELSE /\ pc[p] = "done"
                              /\ resp[p].status = 500
                              /\ resp[p] = DownloadError

\* A request whose download raised although its name is in assets went on
\* with the bytes of the default image and was answered with them.
C8_Witness ==
    \E p \in Workers :
        /\ pc[p] = "done" /\ resp[p].status = 200
        /\ Len(ops[p]) = 3
        /\ ops[p][2].arg \in DOMAIN assets
        /\ ops[p][2].arg # "no-image.jpg"
        /\ ~ops[p][2].ok
        /\ ops[p][3] = Op("get_assets", "no-image.jpg", TRUE)
        /\ resp[p].body = assets["no-image.jpg"]

(* ---------------------------------------------------------------------- *)
(* C9                                                                      *)
(* ---------------------------------------------------------------------- *)

\* C9: within one request there is at most one download from
\* assetsoutput, at most one transform, at most one upload, and no name
\* is downloaded from assets twice.
C9_EachCallOnce ==
    \A p \in Workers :
        /\ Cardinality(Calls(p, "get_output")) <= 1
        /\ Cardinality(Calls(p, "transform")) <= 1
        /\ Cardinality(Calls(p, "put_output")) <= 1
        /\ \A i, j \in Calls(p, "get_assets") :
              i # j => ops[p][i].arg # ops[p][j].arg

(* ---------------------------------------------------------------------- *)
(* C10                                                                     *)
(* ---------------------------------------------------------------------- *)

\* C10: no step removes a blob from assetsoutput; a step that changes the
\* bytes under a name is the upload of a request that arrived when the
\* name was not there yet; and a request that arrived when its derived
\* blob was already there is answered at its cache check with the stored
\* bytes and never gets past it.
C10_DerivedBlobsStay ==
    [][/\ \A k \in DOMAIN assetsoutput :
             /\ k \in DOMAIN assetsoutput'
             /\ assetsoutput'[k] # assetsoutput[k]
                => \E p \in Workers :
                      /\ pc[p] = "upload" /\ pc'[p] = "done"
                      /\ output_filename[p] = k
                      /\ k \notin DOMAIN atStart[p]
       /\ \A p \in Workers :
             (/\ pc[p] = "check_cache" /\ pc'[p] # "check_cache"
              /\ output_filename[p] \in DOMAIN atStart[p])
             => /\ pc'[p] = "done"
                /\ resp'[p].body = assetsoutput[output_filename[p]]
                /\ assetsoutput' = assetsoutput
       /\ \A p \in Workers :
             pc[p] \in {"download", "download_default", "process", "upload"}
             => output_filename[p] \notin DOMAIN atStart[p]]_vars

(* ---------------------------------------------------------------------- *)
(* C11                                                                     *)
(* ---------------------------------------------------------------------- *)

\* C11: a request without a filename is answered with 400 as soon as it
\* is taken, whatever its width, height and format: it makes no call on
\* either container (its log of container calls stays empty).
C11_MissingFilenameIs400 ==
    \A p \in Workers :
        (pc[p] # "idle" /\ req[p].filename = <<>>)
        => /\ pc[p] = "done"
           /\ resp[p].status = 400
           /\ resp[p].body = Text("Filename is required.")
           /\ ops[p] = <<>>

\* A request without a filename, with a width and a format, was answered
\* with 400 while the other worker's request had stored a derived blob.
C11_Witness ==
    \E p \in Workers :
        /\ pc[p] = "done"
        /\ req[p].filename = <<>>
        /\ req[p].width = "100" /\ req[p].format # None
        /\ resp[p].status = 400
        /\ ops[p] = <<>>
        /\ assetsoutput # EmptyStore

(* ---------------------------------------------------------------------- *)
(* C12                                                                     *)
(* ---------------------------------------------------------------------- *)

\* The upload of the request of p was refused by the store.
UploadFailed(p) == LastOp(p) = "put_output" /\ resp[p].status = 500

\* C12: a request whose filename has no '.' holds, from the moment it is
\* taken, the extension, the MIME type and the output file name of a
\* request for no-image.jpg with the same width, height and format, and
\* every call it makes on assets names no-image.jpg; and when such a
\* request and a request for no-image.jpg with the same parameters have
\* both been answered after the same container calls with the same luck at
\* the upload, they got the same response and left the same derived blob.
C12_NoDotIsDefault ==
    /\ \A p \in Workers :
          (pc[p] # "idle" /\ Len(req[p].filename) = 1)
          => /\ filename[p] = <<"no-image", "jpg">>
             /\ original_extension[p] = "JPG"
             /\ mimetype[p] = "image/jpeg"
             /\ output_filename[p] =
                    "no-image_" \o Str(req[p].width) \o "_"
                    \o Str(req[p].height) \o "."
                    \o (IF req[p].format = None THEN "jpg"
                        ELSE Lower(req[p].format))
             /\ \A i \in Calls(p, "get_assets") :
                    ops[p][i].arg = "no-image.jpg"
             /\ \A i \in Calls(p, "get_output") \cup Calls(p, "put_output") :
                    ops[p][i].arg = output_filename[p]
    /\ \A p, q \in Workers :
          (/\ pc[p] = "done" /\ pc[q] = "done"
           /\ Len(req[p].filename) = 1
           /\ req[q].filename = <<"no-image", "jpg">>
           /\ req[q].width = req[p].width
           /\ req[q].height = req[p].height
           /\ req[q].format = req[p].format
           /\ ops[p] = ops[q]
           /\ UploadFailed(p) = UploadFailed(q))
          => /\ output_filename[p] = output_filename[q]
             /\ resp[p] = resp[q]
             /\ Written(p) = Written(q)

\* A request for a name without '.' and a request for no-image.jpg, both
\* with width 100, have each missed the cache, transformed the default
\* image, stored it and been answered with 200.
C12_Witness ==
    \E p, q \in Workers :
        /\ pc[p] = "done" /\ pc[q] = "done"
        /\ Len(req[p].filename) = 1
        /\ req[q].filename = <<"no-image", "jpg">>
        /\ req[p].width = "100" /\ req[q].width = "100"
        /\ req[q].height = req[p].height
        /\ req[q].format = req[p].format
        /\ ops[p] = ops[q]
        /\ LastOp(p) = "put_output"
        /\ resp[p].status = 200 /\ resp[q].status = 200

(* ---------------------------------------------------------------------- *)
(* C13                                                                     *)
(* ---------------------------------------------------------------------- *)

\* The name without its extension: everything before the last '.'.
BaseName(pieces) == Join(SubSeq(pieces, 1, Len(pieces) - 1))

\* C13: for every name with at least one '.', the output file name is the
\* name without its last extension, then '_', the width, '_', the height
\* (each 'None' when absent), '.', and the extension of the output; a name
\* with several dots keeps everything before its last dot.
C13_KeyKeepsBaseName ==
    \A p \in Workers :
        (pc[p] # "idle" /\ Len(req[p].filename) >= 2)
        => output_filename[p] =
               BaseName(req[p].filename) \o "_" \o Str(req[p].width) \o "_"
               \o Str(req[p].height) \o "."
               \o (IF req[p].format = None
                   THEN Lower(req[p].filename[Len(req[p].filename)])
                   ELSE Lower(req[p].format))

(* ---------------------------------------------------------------------- *)
(* C14                                                                     *)
(* ---------------------------------------------------------------------- *)

\* The format after upper() and the JPG -> JPEG normalisation of lines
\* 129-131.
NormalizedFormat(format) ==
    IF Upper(format) = "JPG" THEN "JPEG" ELSE Upper(format)

\* The text after the last '.' of an output file name, for the extensions
\* that occur.
KeyEndsWith(name, ext) ==
    \E stem \in {BaseName(f) : f \in KeyFilenames}
                \cup {f[1] : f \in KeyFilenames} :
        \E w \in {"None", "100"}, h \in {"None", "50"} :
            name = stem \o "_" \o w \o "_" \o h \o "." \o ext

\* C14: with a format, the output file name ends in the lowercase of the
\* normalised format, so jpg, JPG and jpeg on the same name, width and
\* height give one output file name, ending in .jpeg; without a format it
\* ends in the lowercase of the name's own extension, not normalised.
C14_KeyExtensionNormalized ==
    /\ \A p \in Workers :
          (pc[p] # "idle" /\ Len(req[p].filename) >= 2)
          => IF req[p].format # None
             THEN KeyEndsWith(output_filename[p],
                              Lower(NormalizedFormat(req[p].format)))
             ELSE KeyEndsWith(output_filename[p],
                      Lower(req[p].filename[Len(req[p].filename)]))
    /\ \A p, q \in Workers :
          (/\ pc[p] # "idle" /\ pc[q] # "idle"
           /\ req[p].filename = req[q].filename
           /\ Len(req[p].filename) >= 2
           /\ req[p].width = req[q].width
           /\ req[p].height = req[q].height
           /\ req[p].format \in {"jpg", "JPG", "jpeg"}
           /\ req[q].format \in {"jpg", "JPG", "jpeg"})
          => output_filename[p] = output_filename[q]

(* ---------------------------------------------------------------------- *)
(* C15                                                                     *)
(* ---------------------------------------------------------------------- *)

\* C15: a request's first container call is the cache check, and no
\* download from assets comes before it; a request leaves the cache check
\* for the download only on a miss (the download from assetsoutput
\* raised); a request that gets to the upload has made, in this order, the
\* cache check on its output file name, which missed, one or two downloads
\* from assets, the last of which returned, the transform, and then the
\* upload to that same name; it holds a decoded source image, was given
\* at least one of width, height and format, and encoded as JPEG, PNG,
\* BMP or GIF; and
\* the response is set only when the request ends.
C15_FixedOrder ==
    /\ [](\A p \in Workers :
            /\ (ops[p] # <<>>) => ops[p][1].op = "get_output"
            /\ \A i \in Calls(p, "get_assets") : i >= 2
            /\ (pc[p] \notin {"idle", "done"}) => resp[p] = NoResponse
            /\ (pc[p] = "upload" \/ Calls(p, "put_output") # {})
               => LET n == Len(ops[p])
                      t == IF pc[p] = "upload" THEN n ELSE n - 1
                  IN  /\ t >= 3
                      /\ ops[p][1] =
                             Op("get_output", output_filename[p], FALSE)
                      /\ \A i \in 2..(t - 1) : ops[p][i].op = "get_assets"
                      /\ ops[p][t - 1].ok
                      /\ ops[p][t] = Op("transform", "", TRUE)
                      /\ (pc[p] # "upload")
                         => /\ ops[p][n].op = "put_output"
                            /\ ops[p][n].arg = output_filename[p]
                      /\ blob_data[p].kind = "image"
                      /\ \/ req[p].width \notin {None, ""}
                         \/ req[p].height \notin {None, ""}
                         \/ req[p].format \notin {None, ""}
                      /\ output[p].fmt \in {"JPEG", "PNG", "BMP", "GIF"})
    /\ [][\A p \in Workers :
             (pc[p] = "check_cache" /\ pc'[p] = "download")
             => ops'[p] =
                    <<Op("get_output", output_filename[p], FALSE)>>]_vars

\* A request with a format has missed the cache, fetched its source,
\* transformed it, stored the result and been answered with 200.
C15_Witness ==
    \E p \in Workers :
        /\ pc[p] = "done"
        /\ resp[p].status = 200
        /\ req[p].format = "png"
        /\ Len(ops[p]) = 4
        /\ ops[p][4] = Op("put_output", output_filename[p], TRUE)
        /\ output_filename[p] \in DOMAIN assetsoutput

(* ---------------------------------------------------------------------- *)
(* C16                                                                     *)
(* ---------------------------------------------------------------------- *)

\* n / d rounded to the nearest integer, a tie to the even one.
RoundNearest(n, d) ==
    LET q == n \div d
        twice == 2 * (n % d)
    IN  IF twice < d THEN q
        ELSE IF twice > d THEN q + 1
        ELSE IF q % 2 = 0 THEN q ELSE q + 1

\* The request of p has been through the transform with only a width, or
\* only a height.
OnlyWidth(p) ==
    /\ Calls(p, "transform") # {}
    /\ req[p].width # None /\ req[p].height = None
OnlyHeight(p) ==
    /\ Calls(p, "transform") # {}
    /\ req[p].width = None /\ req[p].height # None

\* C16: with only a width, the size asked of thumbnail is the width and
\* the original height times width over original width, rounded to the
\* nearest integer; with only a height, the same with the sides swapped.
C16_BoxRounded ==
    \A p \in Workers :
        LET W == blob_data[p].w
            H == blob_data[p].h
            size == RequestedSize(req[p].width, req[p].height, W, H)
        IN  /\ OnlyWidth(p)
               => /\ size.w = IntOf(req[p].width)
                  /\ size.h = RoundNearest(H * IntOf(req[p].width), W)
            /\ OnlyHeight(p)
               => /\ size.h = IntOf(req[p].height)
                  /\ size.w = RoundNearest(W * IntOf(req[p].height), H)

(* ---------------------------------------------------------------------- *)
(* C17                                                                     *)
(* ---------------------------------------------------------------------- *)

\* The request of p was transformed, stored and answered with 200.
Succeeded(p) ==
    pc[p] = "done" /\ LastOp(p) = "put_output" /\ resp[p].status = 200

\* C17: the picture a successful transforming request returns is no wider
\* and no higher than the original, no wider than a given width and no
\* higher than a given height, and within the size asked of thumbnail;
\* with neither width nor height it has the size of the original.
C17_NeverEnlarged ==
    \A p \in Workers :
        Succeeded(p)
        => LET W == blob_data[p].w
               H == blob_data[p].h
               size == RequestedSize(req[p].width, req[p].height, W, H)
           IN  /\ resp[p].body.kind = "image"
               /\ resp[p].body.w <= W /\ resp[p].body.h <= H
               /\ resp[p].body.w >= 1 /\ resp[p].body.h >= 1
               /\ (req[p].width # None)
                  => resp[p].body.w <= IntOf(req[p].width)
               /\ (req[p].height # None)
                  => resp[p].body.h <= IntOf(req[p].height)
               /\ (req[p].width # None \/ req[p].height # None)
                  => resp[p].body.w <= size.w /\ resp[p].body.h <= size.h
               /\ (req[p].width = None /\ req[p].height = None)
                  => resp[p].body.w = W /\ resp[p].body.h = H

\* A request for a width larger than the picture succeeded, and the
\* picture it returned has the size of the original.
C17_Witness ==
    \E p \in Workers :
        /\ Succeeded(p)
        /\ req[p].width = "500" /\ req[p].height = None
        /\ blob_data[p].w < 500
        /\ resp[p].body.w = blob_data[p].w
        /\ resp[p].body.h = blob_data[p].h

(* ---------------------------------------------------------------------- *)
(* C18                                                                     *)
(* ---------------------------------------------------------------------- *)

\* C18: when a request has been transformed, stored and answered with
\* 200, and the same request is made again by a worker that finds the
\* stored blob in assetsoutput at its start, the second request is served
\* from the cache with the same status, body, MIME type and
\* Content-Disposition, its only container call is the cache check, and
\* assetsoutput is at its end what it was at its start.
C18_RepeatIsCacheHit ==
    \A p, q \in Workers :
        (/\ p # q
         /\ Succeeded(p)
         /\ pc[q] = "done"
         /\ req[q] = req[p]
         /\ output_filename[p] \in DOMAIN atStart[q]
         /\ atStart[q][output_filename[p]] = resp[p].body)
        => /\ ServedFromCache(q)
           /\ ops[q] = <<Op("get_output", output_filename[p], TRUE)>>
           /\ resp[q].status = 200
           /\ resp[q].body = resp[p].body
           /\ resp[q].mimetype = resp[p].mimetype
           /\ resp[q].disposition = resp[p].disposition
           /\ assetsoutput = atStart[q]

(* ---------------------------------------------------------------------- *)
(* C19                                                                     *)
(* ---------------------------------------------------------------------- *)

\* C19: a step that ends a request with 400 or 500 leaves assetsoutput as
\* it is, and so does every earlier step of any request; assetsoutput
\* changes only in the step that ends a transformed request with 200, and
\* then only at that request's output file name, which gets the body of
\* its response.
C19_OnlySuccessStores ==
    [][/\ \A p \in Workers :
             (pc'[p] = "done" /\ pc[p] # "done"
              /\ resp'[p].status \in {400, 500})
             => assetsoutput' = assetsoutput
       /\ (assetsoutput' # assetsoutput)
          => \E p \in Workers :
                /\ pc[p] = "upload" /\ pc'[p] = "done"
                /\ ops[p][Len(ops[p])].op = "transform"
                /\ resp'[p].status = 200
                /\ DOMAIN assetsoutput' =
                       DOMAIN assetsoutput \cup {output_filename[p]}
                /\ assetsoutput'[output_filename[p]] = resp'[p].body
                /\ \A n \in DOMAIN assetsoutput :
                       n # output_filename[p]
                       => assetsoutput'[n] = assetsoutput[n]]_vars

\* A request was answered with 500 after its upload was refused, and its
\* output file name is not in assetsoutput, which holds the derived blob of
\* another request.
C19_Witness ==
    \E p \in Workers :
        /\ UploadFailed(p)
        /\ output_filename[p] \notin DOMAIN assetsoutput
        /\ assetsoutput # EmptyStore
        /\ assetsoutput = atStart[p]

(* ---------------------------------------------------------------------- *)
(* C20                                                                     *)
(* ---------------------------------------------------------------------- *)

\* C20: no step changes assets, neither its names nor their content; the
\* only step that writes to a container is the upload, which is logged as
\* a put to assetsoutput and removes no name from it.
C20_AssetsNeverWritten ==
    [][/\ assets' = assets
       /\ (assetsoutput' # assetsoutput)
          => /\ DOMAIN assetsoutput \subseteq DOMAIN assetsoutput'
             /\ \E p \in Workers :
                   ops'[p] = Append(ops[p],
                                    Op("put_output", output_filename[p],
                                       TRUE))]_vars

\* Two requests have been transformed and stored under different names,
\* one of them from photo.png, and assets still holds the original
\* photo.png.
C20_Witness ==
    \E p, q \in Workers :
        /\ Succeeded(p) /\ Succeeded(q)
        /\ output_filename[p] # output_filename[q]
        /\ req[p].filename = <<"photo", "png">>
        /\ "photo.png" \in DOMAIN assets
        /\ assets["photo.png"] = PhotoPng
        /\ output_filename[p] \in DOMAIN assetsoutput
        /\ output_filename[q] \in DOMAIN assetsoutput

====
